---------------------------- MODULE Spec2Model ----------------------------
(***************************************************************************)
(* A model of src/main.py: the Telegram bot's command handlers handle_get, *)
(* handle_post_put (for /post and /put) and handle_delete.                 *)
(*                                                                         *)
(* Text.  A Python string is a sequence of one-character strings.  The     *)
(* literal text of an f-string template is written in pieces: every        *)
(* character that matters to the reply's markup (a MarkdownV2 reserved     *)
(* character, a backtick, a newline) is a piece of its own, and a run of   *)
(* other characters may be one piece ("Timeout Error").  Lengths are only  *)
(* ever taken of user- or server-supplied text, which is one character per *)
(* element.                                                                *)
(***************************************************************************)
EXTENDS Integers, Sequences, FiniteSets, TLC

(***************************************************************************)
(* Python str helpers                                                      *)
(***************************************************************************)

\* str.startswith(prefix)
StartsWith(s, prefix) ==
    /\ Len(s) >= Len(prefix)
    /\ SubSeq(s, 1, Len(prefix)) = prefix

\* s[:n]
Take(s, n) == SubSeq(s, 1, IF Len(s) < n THEN Len(s) ELSE n)

\* s[n:]  (n counted from 0, as in Python)
Drop(s, n) == SubSeq(s, n + 1, Len(s))

\* The least index in lo..hi whose character is in chars (neg = FALSE) or is
\* not in chars (neg = TRUE); hi + 1 when there is none.  Bisection keeps the
\* evaluation shallow on long texts.
RECURSIVE FindIn(_, _, _, _, _)
FindIn(s, chars, neg, lo, hi) ==
    IF lo > hi \/ ~(\E i \in lo..hi : (s[i] \in chars) # neg) THEN hi + 1
    ELSE IF lo = hi THEN lo
    ELSE IF \E i \in lo..((lo + hi) \div 2) : (s[i] \in chars) # neg
    THEN FindIn(s, chars, neg, lo, (lo + hi) \div 2)
    ELSE FindIn(s, chars, neg, ((lo + hi) \div 2) + 1, hi)

\* The characters str.split() (no separator) and str.strip() treat as
\* whitespace, as far as the modelled texts contain them.
PyWhitespace == {" ", "\t", "\n", "\r"}

\* str.split(sep, maxsplit) for a one-character separator: cut at each of the
\* first maxsplit occurrences of sep, keeping empty parts.
RECURSIVE SplitOn(_, _, _)
SplitOn(s, sep, maxsplit) ==
    LET i == FindIn(s, {sep}, FALSE, 1, Len(s))
    IN  IF maxsplit = 0 \/ i > Len(s) THEN <<s>>
        ELSE <<SubSeq(s, 1, i - 1)>> \o SplitOn(Drop(s, i), sep, maxsplit - 1)

\* str.split() with no argument: the maximal runs of non-whitespace.
RECURSIVE SplitWhitespace(_)
SplitWhitespace(s) ==
    LET b == FindIn(s, PyWhitespace, TRUE, 1, Len(s))
        e == FindIn(s, PyWhitespace, FALSE, b, Len(s))
    IN  IF b > Len(s) THEN <<>>
        ELSE <<SubSeq(s, b, e - 1)>> \o SplitWhitespace(Drop(s, e - 1))

\* str(n) for a natural number.
Digits == <<"0", "1", "2", "3", "4", "5", "6", "7", "8", "9">>

RECURSIVE IntToStr(_)
IntToStr(n) ==
    IF n < 10 THEN <<Digits[n + 1]>>
    ELSE IntToStr(n \div 10) \o <<Digits[(n % 10) + 1]>>

\* [c] * n
Repeat(c, n) == [i \in 1..n |-> c]

(***************************************************************************)
(* Python's json module: json.loads and json.dumps(obj, indent=2,          *)
(* ensure_ascii=False), as json/decoder.py, json/scanner.py and            *)
(* json/encoder.py compute them.  A parsed value is a record               *)
(*   [t |-> "int" | "lit" | "str", v |-> its text]                         *)
(*   [t |-> "arr", v |-> <<values>>]                                       *)
(*   [t |-> "obj", v |-> <<  <<key text, value>>, ... >>]  (a dict, in     *)
(*                                                   insertion order).     *)
(* Positions p are indexes into the sequence (from 1); Python's are p - 1. *)
(* Two branches of the decoder are outside the texts the model generates   *)
(* and are left undefined, so that reaching one stops TLC: a               *)
(* backslash escape inside a string, and a number with a fraction or an    *)
(* exponent.                                                               *)
(***************************************************************************)

\* json.decoder.WHITESPACE
JsonWhitespace == {" ", "\t", "\n", "\r"}

DigitSet == {"0", "1", "2", "3", "4", "5", "6", "7", "8", "9"}

\* The control characters a strict scanstring rejects inside a string.
ControlChars == {"\t", "\n", "\r"}

\* s[p:p+1]
CharAt(s, p) == IF 1 <= p /\ p <= Len(s) THEN s[p] ELSE ""

\* s[p:p+len(word)] == word
HasWord(s, p, word) ==
    /\ p + Len(word) - 1 <= Len(s)
    /\ SubSeq(s, p, p + Len(word) - 1) = word

\* WHITESPACE.match(s, p).end()
SkipWS(s, p) == FindIn(s, JsonWhitespace, TRUE, p, Len(s))

JsonOk(val, end) == [k |-> "ok", val |-> val, end |-> end]
JsonStop(at) == [k |-> "stop", at |-> at]
JsonErr(msg, at) == [k |-> "err", msg |-> msg, at |-> at]

W_null == <<"n", "u", "l", "l">>
W_true == <<"t", "r", "u", "e">>
W_false == <<"f", "a", "l", "s", "e">>
W_NaN == <<"N", "a", "N">>
W_Infinity == <<"I", "n", "f", "i", "n", "i", "t", "y">>
W_NegInfinity == <<"-">> \o W_Infinity

\* py_scanstring(s, end, strict=True), p the position after the opening
\* quote and q that of the first quote, backslash or control character.
ScanStringTo(s, p, q) ==
    CASE q > Len(s) -> JsonErr("Unterminated string starting at", p - 1)
      [] CharAt(s, q) = "\"" ->
            JsonOk([t |-> "str", v |-> SubSeq(s, p, q - 1)], q + 1)
      [] CharAt(s, q) \in ControlChars ->
            JsonErr("Invalid control character at", q)

ScanString(s, p) ==
    ScanStringTo(s, p, FindIn(s, {"\"", "\\"} \cup ControlChars, FALSE, p, Len(s)))

\* NUMBER_RE.match(s, p): the end of the integer part, 0 when there is no match.
NumberEnd(s, p) ==
    LET d == IF CharAt(s, p) = "-" THEN p + 1 ELSE p
    IN  IF CharAt(s, d) \notin DigitSet THEN 0
        ELSE IF s[d] = "0" THEN d + 1
        ELSE FindIn(s, DigitSet, TRUE, d, Len(s))

\* Whether NUMBER_RE goes on, at e, with a fraction or an exponent.
FloatTail(s, e) ==
    \/ CharAt(s, e) = "." /\ CharAt(s, e + 1) \in DigitSet
    \/ /\ CharAt(s, e) \in {"e", "E"}
       /\ \/ CharAt(s, e + 1) \in DigitSet
          \/ CharAt(s, e + 1) \in {"-", "+"} /\ CharAt(s, e + 2) \in DigitSet

\* str(int(text)): int("-0") is 0.
IntText(text) == IF text = <<"-", "0">> THEN <<"0">> ELSE text

\* dict(pairs): a repeated key keeps its first place and takes the last value.
DictSet(pairs, key, val) ==
    IF \E i \in 1..Len(pairs) : pairs[i][1] = key
    THEN [i \in 1..Len(pairs) |->
            IF pairs[i][1] = key THEN <<key, val>> ELSE pairs[i]]
    ELSE Append(pairs, <<key, val>>)

RECURSIVE ScanOnce(_, _), ParseArrayItems(_, _, _), ParseObjectPairs(_, _, _)

\* JSONArray's loop after a value r, the next character being at q.
ArrayAfterValue(s, acc, r, q) ==
    CASE CharAt(s, q) = "]" ->
            JsonOk([t |-> "arr", v |-> Append(acc, r.val)], q + 1)
      [] CharAt(s, q) = "," ->
            ParseArrayItems(s, SkipWS(s, q + 1), Append(acc, r.val))
      [] OTHER -> JsonErr("Expecting ',' delimiter", q)

\* JSONArray's loop with r, what scan_once made of the next value.
ArrayValue(s, acc, r) ==
    CASE r.k = "stop" -> JsonErr("Expecting value", r.at)
      [] r.k = "err" -> r
      [] r.k = "ok" -> ArrayAfterValue(s, acc, r, SkipWS(s, r.end))

\* JSONArray's loop; p is where the next value must start.
ParseArrayItems(s, p, acc) == ArrayValue(s, acc, ScanOnce(s, p))

\* JSONObject's loop after a pair and a comma, the next character being at q.
ObjectAfterComma(s, pairs, q) ==
    IF CharAt(s, q) = "\"" THEN ParseObjectPairs(s, q, pairs)
    ELSE JsonErr("Expecting property name enclosed in double quotes", q)

\* JSONObject's loop after a pair, the next character being at q.
ObjectAfterValue(s, pairs, q) ==
    CASE CharAt(s, q) = "}" -> JsonOk([t |-> "obj", v |-> pairs], q + 1)
      [] CharAt(s, q) = "," -> ObjectAfterComma(s, pairs, SkipWS(s, q + 1))
      [] OTHER -> JsonErr("Expecting ',' delimiter", q)

\* JSONObject's loop with r, what scan_once made of the value of key.
ObjectValue(s, acc, key, r) ==
    CASE r.k = "stop" -> JsonErr("Expecting value", r.at)
      [] r.k = "err" -> r
      [] r.k = "ok" ->
            ObjectAfterValue(s, DictSet(acc, key.val.v, r.val), SkipWS(s, r.end))

\* JSONObject's loop after a key, the next character being at q.
ObjectAfterKey(s, acc, key, q) ==
    IF CharAt(s, q) # ":" THEN JsonErr("Expecting ':' delimiter", q)
    ELSE ObjectValue(s, acc, key, ScanOnce(s, SkipWS(s, q + 1)))

\* JSONObject's loop with key, what scanstring made of the next key.
ObjectKey(s, acc, key) ==
    IF key.k = "err" THEN key
    ELSE ObjectAfterKey(s, acc, key, SkipWS(s, key.end))

\* JSONObject's loop; p is the position of the opening quote of the next key.
ParseObjectPairs(s, p, acc) == ObjectKey(s, acc, ScanString(s, p + 1))

\* JSONObject after "{", the next character being at q.
ObjectOpen(s, q) ==
    CASE CharAt(s, q) = "}" -> JsonOk([t |-> "obj", v |-> <<>>], q + 1)
      [] CharAt(s, q) = "\"" -> ParseObjectPairs(s, q, <<>>)
      [] OTHER -> JsonErr("Expecting property name enclosed in double quotes", q)

\* JSONArray after "[", the next character being at q.
ArrayOpen(s, q) ==
    IF CharAt(s, q) = "]" THEN JsonOk([t |-> "arr", v |-> <<>>], q + 1)
    ELSE ParseArrayItems(s, q, <<>>)

\* _scan_once where no string, object, array, null, true or false starts:
\* a number, whose integer part ends at e, or NaN, Infinity, -Infinity.
ScanNumber(s, p, e) ==
    CASE e # 0 /\ ~FloatTail(s, e) ->
            JsonOk([t |-> "int", v |-> IntText(SubSeq(s, p, e - 1))], e)
      [] e = 0 /\ HasWord(s, p, W_NaN) ->
            JsonOk([t |-> "lit", v |-> W_NaN], p + 3)
      [] e = 0 /\ HasWord(s, p, W_Infinity) ->
            JsonOk([t |-> "lit", v |-> W_Infinity], p + 8)
      [] e = 0 /\ HasWord(s, p, W_NegInfinity) ->
            JsonOk([t |-> "lit", v |-> W_NegInfinity], p + 9)
      [] e = 0 -> JsonStop(p)

\* py_make_scanner's _scan_once(string, idx), c being the character there.
ScanChar(s, p, c) ==
    CASE p > Len(s) -> JsonStop(p)
      [] c = "\"" -> ScanString(s, p + 1)
      [] c = "{" -> ObjectOpen(s, SkipWS(s, p + 1))
      [] c = "[" -> ArrayOpen(s, SkipWS(s, p + 1))
      [] c = "n" /\ HasWord(s, p, W_null) ->
            JsonOk([t |-> "lit", v |-> W_null], p + 4)
      [] c = "t" /\ HasWord(s, p, W_true) ->
            JsonOk([t |-> "lit", v |-> W_true], p + 4)
      [] c = "f" /\ HasWord(s, p, W_false) ->
            JsonOk([t |-> "lit", v |-> W_false], p + 5)
      [] OTHER -> ScanNumber(s, p, NumberEnd(s, p))

ScanOnce(s, p) == ScanChar(s, p, CharAt(s, p))

\* str(JSONDecodeError(msg, doc, pos)):
\* "%s: line %d column %d (char %d)" with pos counted from 0.
JSONDecodeError(msg, doc, at) ==
    LET pos == at - 1
        nl == {i \in 1..pos : doc[i] = "\n"}
        last == IF nl = {} THEN 0 ELSE CHOOSE i \in nl : \A j \in nl : j <= i
    IN  <<msg, ":", " line ">> \o IntToStr(Cardinality(nl) + 1)
           \o <<" column ">> \o IntToStr(pos - last + 1)
           \o <<" ", "(", "char ">> \o IntToStr(pos) \o <<")">>

\* JSONDecoder.decode(s) with r, what raw_decode made of s, and end, where
\* the whitespace after the value ends.
DecodeEnd(s, r, end) ==
    IF end # Len(s) + 1
    THEN [ok |-> FALSE, e |-> JSONDecodeError("Extra data", s, end)]
    ELSE [ok |-> TRUE, val |-> r.val]

Decode(s, r) ==
    CASE r.k = "stop" ->
            [ok |-> FALSE, e |-> JSONDecodeError("Expecting value", s, r.at)]
      [] r.k = "err" -> [ok |-> FALSE, e |-> JSONDecodeError(r.msg, s, r.at)]
      [] r.k = "ok" -> DecodeEnd(s, r, SkipWS(s, r.end))

\* json.loads(s): [ok |-> TRUE, val |-> value], or [ok |-> FALSE, e |-> str(e)]
\* for the JSONDecodeError it raises.
json_loads(s) == Decode(s, ScanOnce(s, SkipWS(s, 1)))

\* '\n' + ' ' * (2 * level): the line break before an item at that depth.
NewlineIndent(level) == <<"\n">> \o Repeat(" ", 2 * level)

RECURSIVE json_dumps_at(_, _), DumpItems(_, _, _, _)

\* The items of a list (isObj = FALSE) or a dict, from the i-th on.
DumpItems(items, i, level, isObj) ==
    IF i > Len(items) THEN <<>>
    ELSE (IF i = 1 THEN <<>> ELSE <<",">>)
         \o NewlineIndent(level)
         \o (IF isObj
             THEN <<"\"">> \o items[i][1] \o <<"\"", ":", " ">>
                    \o json_dumps_at(items[i][2], level)
             ELSE json_dumps_at(items[i], level))
         \o DumpItems(items, i + 1, level, isObj)

\* JSONEncoder(indent=2, ensure_ascii=False)'s text of a value at a depth.
json_dumps_at(v, level) ==
    CASE v.t \in {"int", "lit"} -> v.v
      [] v.t = "str" -> <<"\"">> \o v.v \o <<"\"">>
      [] v.t = "arr" ->
            IF v.v = <<>> THEN <<"[", "]">>
            ELSE <<"[">> \o DumpItems(v.v, 1, level + 1, FALSE)
                   \o NewlineIndent(level) \o <<"]">>
      [] v.t = "obj" ->
            IF v.v = <<>> THEN <<"{", "}">>
            ELSE <<"{">> \o DumpItems(v.v, 1, level + 1, TRUE)
                   \o NewlineIndent(level) \o <<"}">>

\* json.dumps(value, indent=2, ensure_ascii=False)
json_dumps(v) == json_dumps_at(v, 0)

(***************************************************************************)
(* The handlers' validation, formatting and reply texts                    *)
(***************************************************************************)

Http == <<"h", "t", "t", "p", ":", "/", "/">>
Https == <<"h", "t", "t", "p", "s", ":", "/", "/">>

\* A looser check than the handlers': any scheme at all is let through.
ValidSchemeAnyScheme(url) ==
    \E i \in 1..Len(url) : SubSeq(url, i, i + 2) = <<":", "/", "/">>

\* url.startswith("http://") or url.startswith("https://")
ValidScheme(url) == StartsWith(url, Http) \/ StartsWith(url, Https)

\* context.args: the words of the message after the command.
ContextArgs(message_text) == Tail(SplitWhitespace(message_text))

\* A reply_text call's arguments.
PlainReply(text) == [text |-> text, parse_mode |-> "None"]
MarkdownReply(text) == [text |-> text, parse_mode |-> "MarkdownV2"]

\* The emoji of the replies and the backtick, which a module's strings cannot
\* hold, are named: the emoji by their code points.
Backtick == "BACKTICK"
PlayEmoji == "U25B6 UFE0F"
CheckEmoji == "U2705"
CrossEmoji == "U274C"

Lower(method) ==
    CASE method = "GET" -> "get" [] method = "POST" -> "post"
      [] method = "PUT" -> "put" [] method = "DELETE" -> "delete"

\* "Please provide a URL.\nUsage: `/get <URL>`" and "... `/delete <URL>`"
UsageGetDelete(method) ==
    <<"Please provide a URL", ".", "\n", "Usage: ", Backtick, "/", Lower(method),
      " <URL", ">", Backtick>>

\* f"Please provide a URL.\nUsage: `/{method.lower()} <URL> <JSON_DATA>`"
UsagePostPut(method) ==
    <<"Please provide a URL", ".", "\n", "Usage: ", Backtick, "/", Lower(method),
      " <URL", ">", " <JSON", "_", "DATA", ">", Backtick>>

\* "Invalid URL. Please include http:// or https://"
InvalidUrlText ==
    <<"Invalid URL", ".", " Please include http://", " or https://">>

\* f"Invalid JSON data provided for {method} request.\nError: `{e}`\n"
\* "Please ensure it's a well-formed JSON string."
InvalidJsonText(method, e) ==
    <<"Invalid JSON data provided for ", method, " request", ".", "\n",
      "Error: ", Backtick>> \o e
      \o <<Backtick, "\n", "Please ensure it's a well", "-",
           "formed JSON string", ".">>

\* f"... Sending GET request to: {url}..." and the same for DELETE
NoticeGetDelete(method, url) ==
    <<PlayEmoji, " Sending ", method, " request to: ">> \o url
      \o <<".", ".", ".">>

NoticeLimit == 200

\* f"... Sending {method} request to: {url} with data:
\*   `{json_data_str[:200]}{'...' if len(json_data_str)>200 else ''}`..."
NoticePostPut(method, url, json_data_str) ==
    <<PlayEmoji, " Sending ", method, " request to: ">> \o url
      \o <<" with data: ", Backtick>> \o Take(json_data_str, NoticeLimit)
      \o (IF Len(json_data_str) > NoticeLimit THEN <<".", ".", ".">> ELSE <<>>)
      \o <<Backtick, ".", ".", ".">>

\* try: response.json(), json.dumps(..., indent=2, ensure_ascii=False)
\* except ValueError: response.text
JsonOrText(text, r) == IF r.ok THEN json_dumps(r.val) ELSE text

FormatBody(response) == JsonOrText(response.text, json_loads(response.text))

\* handle_delete: the text, and the JSON form only "if response.content".
FormatBodyDelete(response) ==
    IF response.text # <<>> THEN FormatBody(response) ELSE response.text

\* json.dumps(dict(response.headers), indent=2, ensure_ascii=False)
FormatHeaders(response) == json_dumps(response.headers)

BodyLimit == 3500
HeadersLimit == 1000

BodyMarker ==
    <<"\n", "\n", ".", ".", ".", " ", "(", "response body truncated", ")">>
HeadersMarker ==
    <<"\n", "\n", ".", ".", ".", " ", "(", "headers truncated", ")">>

\* A comparison off by one: a body of exactly the limit is cut too.
TruncateBodyAtLimit(b) ==
    IF Len(b) >= BodyLimit THEN Take(b, BodyLimit) \o BodyMarker ELSE b

\* if len(b) > 3500: b = b[:3500] + "\n\n... (response body truncated)"
TruncateBody(b) ==
    IF Len(b) > BodyLimit THEN Take(b, BodyLimit) \o BodyMarker ELSE b

\* if len(h) > 1000: h = h[:1000] + "\n\n... (headers truncated)"
TruncateHeaders(h) ==
    IF Len(h) > HeadersLimit THEN Take(h, HeadersLimit) \o HeadersMarker ELSE h

Fence == <<Backtick, Backtick, Backtick>>

\* f"*Status Code:* `{status_code} {response.reason}`\n\n"
StatusLine(response) ==
    <<"*", "Status Code:", "*", " ", Backtick>> \o IntToStr(response.status_code)
      \o <<" ">> \o response.reason \o <<Backtick, "\n", "\n">>

\* f"... *{method} Response from {url}*\n\n"
Headline(method, url) ==
    <<CheckEmoji, " ", "*", method, " Response from ">> \o url
      \o <<"*", "\n", "\n">>

\* "*Body:*\n```json\n" and, in handle_delete, "*Body:*\n```\n"
BodyOpen(method) ==
    <<"*", "Body:", "*", "\n">> \o Fence
      \o (IF method = "DELETE" THEN <<>> ELSE <<"json">>) \o <<"\n">>

BodyClose == <<"\n">> \o Fence

HeadersOpen == <<"*", "Headers:", "*", "\n">> \o Fence \o <<"json", "\n">>
HeadersClose == <<"\n">> \o Fence \o <<"\n", "\n">>

NoBodyText == <<"(", "No response body", ")">>

\* handle_get's reply_message for a response.
GetSuccess(url, response) ==
    Headline("GET", url) \o StatusLine(response)
      \o HeadersOpen \o TruncateHeaders(FormatHeaders(response)) \o HeadersClose
      \o BodyOpen("GET") \o TruncateBody(FormatBody(response)) \o BodyClose

\* handle_post_put's reply_message for a response: the header block is
\* formatted but left out of the message.
PostPutSuccess(method, url, response) ==
    Headline(method, url) \o StatusLine(response)
      \o BodyOpen(method) \o TruncateBody(FormatBody(response)) \o BodyClose

\* handle_delete's reply_message for a response.
DeleteSuccess(url, response) ==
    LET body == TruncateBody(FormatBodyDelete(response))
    IN  Headline("DELETE", url) \o StatusLine(response)
          \o BodyOpen("DELETE") \o (IF body # <<>> THEN body ELSE NoBodyText)
          \o BodyClose

\* " to {url}" in handle_get, " {method} to {url}" in the other two.
ForTarget(method, url) ==
    (IF method = "GET" THEN <<" for ">> ELSE <<" for ", method, " to ">>)
      \o url

\* f"... *Timeout Error*\n\nThe request to {url} timed out." and, in the other
\* two, "The {method} request to {url} timed out."
TimeoutText(method, url) ==
    <<CrossEmoji, " ", "*", "Timeout Error", "*", "\n", "\n">>
      \o (IF method = "GET" THEN <<"The request to ">>
          ELSE <<"The ", method, " request to ">>)
      \o url \o <<" timed out", ".">>

\* f"... *Request Error for {url}*\n\n`{e}`"
RequestErrorText(method, url, e) ==
    <<CrossEmoji, " ", "*", "Request Error">> \o ForTarget(method, url)
      \o <<"*", "\n", "\n", Backtick>> \o e \o <<Backtick>>

\* f"... *An unexpected error occurred for {url}*\n\n`{e}`"
UnexpectedErrorText(method, url, e) ==
    <<CrossEmoji, " ", "*", "An unexpected error occurred">>
      \o ForTarget(method, url) \o <<"*", "\n", "\n", Backtick>> \o e \o <<Backtick>>

\* The direct base classes of the exceptions the outbound call raises
\* (requests.exceptions and the builtins).
Bases(cls) ==
    CASE cls = "ConnectTimeout" -> {"ConnectionError", "Timeout"}
      [] cls = "ReadTimeout" -> {"Timeout"}
      [] cls = "Timeout" -> {"RequestException"}
      [] cls = "ConnectionError" -> {"RequestException"}
      [] cls = "TooManyRedirects" -> {"RequestException"}
      [] cls = "RequestException" -> {"OSError"}
      [] cls = "OSError" -> {"Exception"}
      [] cls = "UnicodeError" -> {"ValueError"}
      [] cls = "ValueError" -> {"Exception"}
      [] cls = "Exception" -> {}

\* isinstance(exception of class cls, base)
RECURSIVE IsInstance(_, _)
IsInstance(cls, base) ==
    cls = base \/ \E b \in Bases(cls) : IsInstance(b, base)

\* The except clauses in another order: RequestException listed first takes
\* the timeouts, which are RequestExceptions too.
ExceptClauseRequestFirst(cls) ==
    IF IsInstance(cls, "RequestException") THEN "RequestException"
    ELSE IF IsInstance(cls, "Timeout") THEN "Timeout"
    ELSE "Exception"

\* The except clause that takes an exception, in the order the handlers
\* list them: Timeout, RequestException, Exception.
ExceptClause(cls) ==
    CASE IsInstance(cls, "Timeout") -> "Timeout"
      [] ~IsInstance(cls, "Timeout") /\ IsInstance(cls, "RequestException") ->
            "RequestException"
      [] OTHER -> "Exception"

\* reply_message in the except clauses of the three handlers.
FailureText(method, url, exc) ==
    CASE ExceptClause(exc.cls) = "Timeout" -> TimeoutText(method, url)
      [] ExceptClause(exc.cls) = "RequestException" ->
            RequestErrorText(method, url, exc.e)
      [] OTHER -> UnexpectedErrorText(method, url, exc.e)

\* reply_message in the try block of the three handlers.
SuccessText(method, url, response) ==
    CASE method = "GET" -> GetSuccess(url, response)
      [] method \in {"POST", "PUT"} -> PostPutSuccess(method, url, response)
      [] method = "DELETE" -> DeleteSuccess(url, response)

(***************************************************************************)
(* The inputs: the texts of the incoming commands, and what the outbound   *)
(* call may produce.                                                       *)
(***************************************************************************)

MaxPending == 1

Methods == {"GET", "POST", "PUT", "DELETE"}

\* The command as the user typed it, which the CommandHandler matched.
CommandName(m) ==
    CASE m = "GET" -> <<"/", "g", "e", "t">>
      [] m = "POST" -> <<"/", "p", "o", "s", "t">>
      [] m = "PUT" -> <<"/", "p", "u", "t">>
      [] m = "DELETE" -> <<"/", "d", "e", "l", "e", "t", "e">>

\* What separates the words of a message: a space, two spaces, a line break.
Separators == {<<" ">>, <<" ", " ">>, <<"\n">>}

\* http://a  https://a.b  ftp://a
Urls ==
    {Http \o <<"a">>, Https \o <<"a", ".", "b">>,
     <<"f", "t", "p", ":", "/", "/", "a">>}

\* {}   {   NaN   {"a":1}   {} x   and a JSON string of 201 characters
Payloads ==
    {<<"{", "}">>, <<"{">>, W_NaN, <<"{", "\"", "a", "\"", ":", "1", "}">>,
     <<"{", "}", " ", "x">>,
     <<"\"">> \o Repeat("x", NoticeLimit - 1) \o <<"\"">>}

\* update.message.text of a message the handler of method m receives: the
\* command alone, or followed by a separator, a URL, a separator, a payload.
Messages(m) ==
    {CommandName(m)}
      \cup {CommandName(m) \o s : s \in Separators}
      \cup {CommandName(m) \o s \o u : s \in Separators, u \in Urls}
      \cup {CommandName(m) \o s \o u \o t \o p :
              s \in Separators, u \in Urls, t \in Separators, p \in Payloads}

NoHeaders == [t |-> "obj", v |-> <<>>]

\* dict(response.headers) with the one header X, of n characters.
OneHeader(n) ==
    [t |-> "obj", v |-> << <<(<<"X">>), [t |-> "str", v |-> Repeat("x", n)]>> >>]

Response(status_code, reason, headers, text) ==
    [k |-> "response", status_code |-> status_code, reason |-> reason,
     headers |-> headers, text |-> text]

ReasonOK == <<"O", "K">>
ReasonNoContent == <<"N", "o", " ", "C", "o", "n", "t", "e", "n", "t">>

\* ["xx...x"], a JSON document of n + 4 characters whose indented form has
\* n + 8.
JsonArrayOfString(n) == <<"[", "\"">> \o Repeat("x", n) \o <<"\"", "]">>

\* What the server may answer: a JSON body, no body, a text body, and answers
\* whose body or headers sit on both sides of the two limits, before and
\* after formatting: a text body of 3500 and of 3501 characters, JSON bodies
\* whose indented forms have 3500 and 3501, a JSON body of 3501 characters
\* whose indented form has 2, and headers whose JSON forms have 1000 and 1001.
Responses ==
    {Response(200, ReasonOK, NoHeaders, <<"{", "\"", "a", "\"", ":", "1", "}">>),
     Response(204, ReasonNoContent, NoHeaders, <<>>),
     Response(200, ReasonOK, OneHeader(2), <<"a", ".", "b">>),
     Response(200, ReasonOK, OneHeader(HeadersLimit - 13), Repeat("x", BodyLimit)),
     Response(200, ReasonOK, OneHeader(HeadersLimit - 12),
              Repeat("x", BodyLimit + 1)),
     Response(200, ReasonOK, NoHeaders, JsonArrayOfString(BodyLimit - 8)),
     Response(200, ReasonOK, NoHeaders, JsonArrayOfString(BodyLimit - 7)),
     Response(200, ReasonOK, NoHeaders,
              <<"[">> \o Repeat(" ", BodyLimit - 1) \o <<"]">>)}

\* What the outbound call may raise: its class and str(e).
Exceptions ==
    {[k |-> "exception", cls |-> "ConnectTimeout", e |-> <<"connect timed out">>],
     [k |-> "exception", cls |-> "ReadTimeout", e |-> <<"read timed out">>],
     [k |-> "exception", cls |-> "ConnectionError", e |-> <<"connection refused">>],
     [k |-> "exception", cls |-> "TooManyRedirects", e |-> <<"too many redirects">>],
     [k |-> "exception", cls |-> "UnicodeError", e |-> <<"label too long">>]}

(***************************************************************************)
(* The state.  The Application is built with its defaults (main), so it    *)
(* awaits one update's handler before it takes the next update: there is   *)
(* one handler frame, and the updates that wait are counted.               *)
(*   pc = "idle"    no handler is running                                  *)
(*        "send"    the handler awaits update.message.reply_text(outgoing) *)
(*        "http"    the handler is inside requests.get/post/put/delete,    *)
(*                  a call that returns only with the response, the        *)
(*                  timeout or an error: the thread is not given back      *)
(*        "done"    the handler has returned                               *)
(*        "raised"  an exception has left the handler                      *)
(***************************************************************************)
VARIABLES
    pending,        \* updates received and not yet handled
    pc,
    method,         \* of the running handler's command
    message_text,   \* update.message.text
    url,
    json_data_str,
    parse,          \* how parsing ended: MissingURL, InvalidURL, InvalidJSON
                    \* or, with a request to make, RequestSpec
    outgoing,       \* the arguments of the reply_text call awaited
    next,           \* what follows that call: "return" or "request"
    result,         \* the response, or the exception, of the outbound call
    replies,        \* the replies this invocation has delivered to the chat
    calls           \* the outbound calls this invocation has made

vars ==
    <<pending, pc, method, message_text, url, json_data_str, parse,
      outgoing, next, result, replies, calls>>

NoResult == [k |-> "none"]

Init ==
    /\ pending = 0
    /\ pc = "idle"
    /\ method = "GET"
    /\ message_text = <<>>
    /\ url = <<>>
    /\ json_data_str = <<>>
    /\ parse = "MissingURL"
    /\ outgoing = PlainReply(<<>>)
    /\ next = "return"
    /\ result = NoResult
    /\ replies = <<>>
    /\ calls = 0

\* A user sends a command.
Arrive ==
    /\ pending < MaxPending
    /\ pending' = pending + 1
    /\ UNCHANGED <<pc, method, message_text, url, json_data_str, parse,
                   outgoing, next, result, replies, calls>>

\* The Application can call a handler: an update waits and none is running.
CanStart == pending > 0 /\ pc = "idle"

\* A handler whose replies to a parse error are not followed by a return: it
\* goes on to the outbound call whatever parsing found.
StartNoReturn(m, text, u, j, p, reply, nxt) ==
    /\ pending' = pending - 1
    /\ pc' = "send"
    /\ method' = m
    /\ message_text' = text
    /\ url' = u
    /\ json_data_str' = j
    /\ parse' = p
    /\ outgoing' = reply
    /\ next' = "request"
    /\ result' = NoResult
    /\ replies' = <<>>
    /\ calls' = 0

\* The handler called runs up to its first reply_text call.
Start(m, text, u, j, p, reply, nxt) ==
    /\ pending' = pending - 1
    /\ pc' = "send"
    /\ method' = m
    /\ message_text' = text
    /\ url' = u
    /\ json_data_str' = j
    /\ parse' = p
    /\ outgoing' = reply
    /\ next' = nxt
    /\ result' = NoResult
    /\ replies' = <<>>
    /\ calls' = 0

handle_get ==
    /\ CanStart
    /\ \E text \in Messages("GET") :
            LET args == ContextArgs(text)
            IN  IF args = <<>>
                THEN Start("GET", text, <<>>, <<>>, "MissingURL",
                           PlainReply(UsageGetDelete("GET")), "return")
                ELSE IF ~ValidScheme(args[1])
                THEN Start("GET", text, args[1], <<>>, "InvalidURL",
                           PlainReply(InvalidUrlText), "return")
                ELSE Start("GET", text, args[1], <<>>, "RequestSpec",
                           PlainReply(NoticeGetDelete("GET", args[1])), "request")

handle_delete ==
    /\ CanStart
    /\ \E text \in Messages("DELETE") :
            LET args == ContextArgs(text)
            IN  IF args = <<>>
                THEN Start("DELETE", text, <<>>, <<>>, "MissingURL",
                           PlainReply(UsageGetDelete("DELETE")), "return")
                ELSE IF ~ValidScheme(args[1])
                THEN Start("DELETE", text, args[1], <<>>, "InvalidURL",
                           PlainReply(InvalidUrlText), "return")
                ELSE Start("DELETE", text, args[1], <<>>, "RequestSpec",
                           PlainReply(NoticeGetDelete("DELETE", args[1])), "request")

\* handle_post_put from the URL check on: parts is the split text, data the
\* payload text and parsed what json.loads makes of it.
PostPutParsed(m, text, parts, data, parsed) ==
    IF ~ValidScheme(parts[2])
    THEN Start(m, text, parts[2], <<>>, "InvalidURL",
               PlainReply(InvalidUrlText), "return")
    ELSE IF ~parsed.ok
    THEN Start(m, text, parts[2], data, "InvalidJSON",
               PlainReply(InvalidJsonText(m, parsed.e)), "return")
    ELSE Start(m, text, parts[2], data, "RequestSpec",
               PlainReply(NoticePostPut(m, parts[2], data)), "request")

\* json_data_str = parts[2] if len(parts) > 2 else "{}"
JsonDataStr(parts) == IF Len(parts) > 2 THEN parts[3] ELSE <<"{", "}">>

PostPutParts(m, text, parts) ==
    IF Len(parts) < 2
    THEN Start(m, text, <<>>, <<>>, "MissingURL",
               PlainReply(UsagePostPut(m)), "return")
    ELSE PostPutParsed(m, text, parts, JsonDataStr(parts),
                       json_loads(JsonDataStr(parts)))

handle_post_put(m) ==
    /\ CanStart
    /\ \E text \in Messages(m) : PostPutParts(m, text, SplitOn(text, " ", 2))

handle_post == handle_post_put("POST")

handle_put == handle_post_put("PUT")

\* The reply_text call awaited returns: the reply is in the chat.  The handler
\* then returns, or goes on, without another await, into the outbound call.
ReplySent ==
    /\ pc = "send"
    /\ replies' = Append(replies, outgoing)
    /\ IF next = "return"
       THEN /\ pc' = "done"
            /\ UNCHANGED <<calls, outgoing, next>>
       ELSE IF method \in {"GET", "DELETE", "POST", "PUT"}
       THEN /\ pc' = "http"
            /\ calls' = calls + 1
            /\ UNCHANGED <<outgoing, next>>
       ELSE /\ pc' = "send"
            /\ outgoing' = PlainReply(<<"Unsupported method internally", ".">>)
            /\ next' = "return"
            /\ UNCHANGED calls
    /\ UNCHANGED <<pending, method, message_text, url, json_data_str,
                   parse, result>>

\* The reply_text call awaited raises (the platform refuses the message, or
\* cannot be reached).  No reply_text call of the handlers is inside a try
\* block that catches it: the exception leaves the handler.
ReplyFails ==
    /\ pc = "send"
    /\ pc' = "raised"
    /\ UNCHANGED <<pending, method, message_text, url, json_data_str,
                   parse, outgoing, next, result, replies, calls>>

\* The outbound call returns a response: the handler formats it and calls
\* reply_text(reply_message, parse_mode='MarkdownV2').
Respond ==
    \E response \in Responses :
        /\ pc = "http"
        /\ result' = response
        /\ outgoing' = MarkdownReply(SuccessText(method, url, response))
        /\ next' = "return"
        /\ pc' = "send"
        /\ UNCHANGED <<pending, method, message_text, url, json_data_str,
                       parse, replies, calls>>

\* The outbound call raises: the except clause that matches makes the
\* reply_message, sent the same way.
Raise ==
    \E exc \in Exceptions :
        /\ pc = "http"
        /\ result' = exc
        /\ outgoing' = MarkdownReply(FailureText(method, url, exc))
        /\ next' = "return"
        /\ pc' = "send"
        /\ UNCHANGED <<pending, method, message_text, url, json_data_str,
                       parse, replies, calls>>

\* The handler's coroutine has ended, by a return or by an exception, which
\* the Application logs: the frame is gone and the next update can be taken.
Finish ==
    /\ pc \in {"done", "raised"}
    /\ pc' = "idle"
    /\ method' = "GET"
    /\ message_text' = <<>>
    /\ url' = <<>>
    /\ json_data_str' = <<>>
    /\ parse' = "MissingURL"
    /\ outgoing' = PlainReply(<<>>)
    /\ next' = "return"
    /\ result' = NoResult
    /\ replies' = <<>>
    /\ calls' = 0
    /\ UNCHANGED pending

\* The Application hands the next update to its handler.
Dispatch == handle_get \/ handle_post \/ handle_put \/ handle_delete

Next ==
    \/ Arrive
    \/ handle_get
    \/ handle_post
    \/ handle_put
    \/ handle_delete
    \/ ReplySent
    \/ ReplyFails
    \/ Respond
    \/ Raise
    \/ Finish

Spec == Init /\ [][Next]_vars

(***************************************************************************)
(* The properties the specification states of the handlers.                *)
(***************************************************************************)

\* sub occurs in s, as consecutive elements.
Contains(s, sub) ==
    \E i \in 1..(Len(s) - Len(sub) + 1) : SubSeq(s, i, i + Len(sub) - 1) = sub

EndsWith(s, suffix) ==
    /\ Len(s) >= Len(suffix)
    /\ SubSeq(s, Len(s) - Len(suffix) + 1, Len(s)) = suffix

\* A handler is running or has just ended.
Invoked == pc # "idle"

\* The handler has ended, by a return or by an exception.
Ended == pc \in {"done", "raised"}

\* C1: the outbound call does not block other invocations: while one
\* invocation is inside its call, an update that waits can be handed to its
\* handler.
C1_CallDoesNotBlockOthers ==
    (pc = "http" /\ pending > 0) => ENABLED Dispatch

\* The URL the handler took from the message begins with http:// or https://.
HttpOrHttps(u) ==
    \/ Len(u) >= 7 /\ SubSeq(u, 1, 7) = <<"h", "t", "t", "p", ":", "/", "/">>
    \/ Len(u) >= 8 /\ SubSeq(u, 1, 8) = <<"h", "t", "t", "p", "s", ":", "/", "/">>

NoUrlToken(text) ==
    \E m \in Methods :
        /\ StartsWith(text, CommandName(m))
        /\ \A i \in (Len(CommandName(m)) + 1)..Len(text) :
                text[i] \in PyWhitespace

\* C3: a command with no URL token (alone, or followed only by spaces or by
\* other whitespace) has the parse result MissingURL, never InvalidURL, and
\* makes no outbound call.
C3_NoUrlTokenIsMissingURL ==
    (Invoked /\ NoUrlToken(message_text)) =>
        (parse = "MissingURL" /\ calls = 0)

\* The payloads of the messages that are JSON documents by the JSON grammar
\* (RFC 8259), NaN not being one, and the default payload.
WellFormedDocuments ==
    {<<"{", "}">>,
     <<"{", "\"", "a", "\"", ":", "1", "}">>,
     <<"\"">> \o Repeat("x", NoticeLimit - 1) \o <<"\"">>}

\* text without the whitespace around it.
Strip(text) ==
    LET inner == {i \in 1..Len(text) : text[i] \notin {" ", "\t", "\n", "\r"}}
    IN  IF inner = {} THEN <<>>
        ELSE SubSeq(text,
                    CHOOSE i \in inner : \A j \in inner : i <= j,
                    CHOOSE i \in inner : \A j \in inner : j <= i)

WellFormedJson(text) == Strip(text) \in WellFormedDocuments

\* C4: a POST or PUT command with a valid URL and a payload that is not
\* well-formed JSON has the parse result InvalidJSON, with a detail that is
\* not empty in its reply, and makes no outbound call.
C4_MalformedJsonRejected ==
    (/\ Invoked
     /\ method \in {"POST", "PUT"}
     /\ parse \in {"InvalidJSON", "RequestSpec"}
     /\ ~WellFormedJson(json_data_str)) =>
        /\ parse = "InvalidJSON"
        /\ calls = 0
        /\ pc # "http"
        /\ Len(outgoing.text) >
             Len(InvalidJsonText(method, <<>>))

\* The characters MarkdownV2 reserves, less the two the templates use as
\* markup (the asterisk of bold, the backtick of code).
MustEscape ==
    {"_", "[", "]", "(", ")", "~", ">", "#", "+", "-", "=", "|", "{", "}",
     ".", "!"}

\* Position i of text is outside code: an even number of backticks precede it.
OutsideCode(text, i) ==
    Cardinality({j \in 1..(i - 1) : text[j] = Backtick}) % 2 = 0

\* Every reserved character outside code follows a backslash.
EscapedForMarkdownV2(text) ==
    \A i \in 1..Len(text) :
        (text[i] \in MustEscape /\ OutsideCode(text, i)) =>
            (i > 1 /\ text[i - 1] = "\\")

\* C5: every reply sent with parse_mode MarkdownV2 has its reserved
\* characters escaped, those of the template text and those of the URL, the
\* error detail and the response.
C5_RepliesEscaped ==
    /\ (pc = "send" /\ outgoing.parse_mode = "MarkdownV2") =>
            EscapedForMarkdownV2(outgoing.text)
    /\ \A i \in 1..Len(replies) :
            replies[i].parse_mode = "MarkdownV2" =>
                EscapedForMarkdownV2(replies[i].text)

C7_NoExceptionEscapes == pc # "raised"

\* C8: an invocation that passed parsing makes exactly one outbound call and
\* one that failed parsing makes none.
C8_OneCallPerParsedInvocation ==
    Ended => calls = (IF parse = "RequestSpec" THEN 1 ELSE 0)

TimeoutLabel == <<"Timeout Error">>
RequestLabel == <<"Request Error">>
UnexpectedLabel == <<"An unexpected error occurred">>

\* The message carries the one label and neither of the other two.
LabelledOnly(text, label) ==
    /\ Contains(text, label)
    /\ \A other \in {TimeoutLabel, RequestLabel, UnexpectedLabel} \ {label} :
            ~Contains(text, other)

\* C9: a timeout, another transport failure and any other exception of the
\* outbound call are each reported under a label of their own (Timeout Error,
\* Request Error, An unexpected error occurred), in a message that names the
\* URL.
C9_FailuresLabelled ==
    result.k = "exception" =>
        /\ outgoing.parse_mode = "MarkdownV2"
        /\ Contains(outgoing.text, url)
        /\ result.cls \in {"Timeout", "ConnectTimeout", "ReadTimeout"} =>
                LabelledOnly(outgoing.text, TimeoutLabel)
        /\ result.cls \in {"RequestException", "ConnectionError",
                           "TooManyRedirects"} =>
                /\ LabelledOnly(outgoing.text, RequestLabel)
                /\ Contains(outgoing.text, result.e)
        /\ result.cls \in {"UnicodeError"} =>
                /\ LabelledOnly(outgoing.text, UnexpectedLabel)
                /\ Contains(outgoing.text, result.e)

\* A connect timeout, which is a ConnectionError as well as a Timeout, has
\* been reported for a PUT.
C9_Witness ==
    /\ pc = "done"
    /\ method = "PUT"
    /\ result.k = "exception"
    /\ result.cls = "ConnectTimeout"
    /\ Len(replies) = 2

\* text as the message shows it under a limit: whole when no longer than the
\* limit, else its first limit characters and the marker.
Shown(text, limit, marker) ==
    IF Len(text) <= limit THEN text ELSE SubSeq(text, 1, limit) \o marker

\* The body block the message of a response must end with.
ExpectedBodyBlock(m, formatted) ==
    BodyOpen(m)
      \o (IF m = "DELETE" /\ formatted = <<>> THEN NoBodyText
          ELSE Shown(formatted, 3500, BodyMarker))
      \o BodyClose

\* The header block before it, which only the GET message has.
ExpectedHeadersBlock(m, response) ==
    IF m = "GET"
    THEN HeadersOpen \o Shown(FormatHeaders(response), 1000, HeadersMarker)
           \o HeadersClose
    ELSE <<>>

\* C10: in the four methods the body shown is the formatted body, whole when
\* it has at most 3500 characters and else its first 3500 followed by the
\* truncation marker; the GET headers are cut to 1000 and their marker only
\* when longer than 1000.
C10_TruncationAfterFormatting ==
    result.k = "response" =>
        EndsWith(outgoing.text,
                 ExpectedHeadersBlock(method, result)
                   \o ExpectedBodyBlock(method,
                        IF method = "DELETE" THEN FormatBodyDelete(result)
                        ELSE FormatBody(result)))

\* A body within the limit as received and over it once formatted has been
\* shown cut, with the marker.
C10_Witness ==
    /\ pc = "done"
    /\ result.k = "response"
    /\ Len(result.text) <= BodyLimit
    /\ Len(FormatBody(result)) = BodyLimit + 1
    /\ EndsWith(replies[2].text, BodyMarker \o BodyClose)

=============================================================================
